---------------------------- MODULE Spec2Model ----------------------------
(***************************************************************************)
(* A model of the data-analytics helper package (src/utils.py and          *)
(* src/data_processing.py).  The package is a set of functions over a      *)
(* pandas DataFrame.  The state machine is one caller (a notebook) that    *)
(* holds a table df, calls one helper at a time on it and then drops the   *)
(* result.  Each helper is an operator translated from its code, with the  *)
(* pandas / scikit-learn calls it makes modelled by what they compute.     *)
(*                                                                         *)
(* Representation.                                                         *)
(*   - a text (column name, formatted value, file field) is a sequence of  *)
(*     one-character strings, so that it can be inspected and compared;    *)
(*   - a cell is an exact number [num, den, rad] standing for             *)
(*     num / (den * sqrt(rad)); den = 0 is NaN (absent).  A cell of an     *)
(*     input table is an integer 0..MaxVal or NaN; fractions arise from    *)
(*     means, medians and min-max scaling, square roots from standard      *)
(*     scores.  Floating-point rounding is not modelled;                   *)
(*   - a column holding NaN has dtype float64, otherwise int64;            *)
(*   - a table is [columns, index, rows]: the column names, the row labels *)
(*     and the rows (each a sequence of cells aligned with columns).       *)
(***************************************************************************)
EXTENDS Integers, Sequences, FiniteSets, TLC

VARIABLES df, pc, call, out, err, fs

vars == <<df, pc, call, out, err, fs>>

\* Bounds of the model.
MaxRows == 2
MaxVal == 1
MaxNameLen == 3
MaxThreshold2 == 3

\* The absent marker (numpy.nan): no valid value equals it.
NaN == [num |-> 0, den |-> 0, rad |-> 1]

\* the cell holding the integer v
Num(v) == [num |-> v, den |-> 1, rad |-> 1]

IsNaN(c) == c.den = 0

Cells == {Num(v) : v \in 0..MaxVal} \cup {NaN}

-----------------------------------------------------------------------------
(* Generic sequence helpers *)

RECURSIVE Flatten(_)
\* the concatenation of a sequence of sequences
Flatten(ss) == IF ss = <<>> THEN <<>> ELSE Head(ss) \o Flatten(Tail(ss))

\* the subsequence of s at the positions where keep[i] holds, in order
Mask(s, keep) ==
    Flatten([i \in 1..Len(s) |-> IF keep[i] THEN <<s[i]>> ELSE <<>>])

RECURSIVE SortedSeq(_)
\* the elements of a finite set of integers, ascending
SortedSeq(S) ==
    IF S = {} THEN <<>>
    ELSE LET m == CHOOSE x \in S : \A y \in S : x <= y
         IN  <<m>> \o SortedSeq(S \ {m})

RECURSIVE SortValues(_)
\* a sequence of integers sorted ascending, duplicates kept
SortValues(s) ==
    IF s = <<>> THEN <<>>
    ELSE LET i == CHOOSE k \in 1..Len(s) : \A j \in 1..Len(s) : s[k] <= s[j]
         IN  <<s[i]>> \o SortValues(SubSeq(s, 1, i - 1) \o SubSeq(s, i + 1, Len(s)))

RECURSIVE Sum(_)
Sum(s) == IF s = <<>> THEN 0 ELSE Head(s) + Sum(Tail(s))

Range(s) == {s[i] : i \in 1..Len(s)}

Abs(x) == IF x < 0 THEN 0 - x ELSE x

-----------------------------------------------------------------------------
(* Texts *)

Lowercase == {"a", "b", "n"}
Uppercase == {"A", "B"}
DigitChars == <<"0", "1", "2", "3", "4", "5", "6", "7", "8", "9">>
Whitespace == {" "}

\* str.strip(): leading and trailing whitespace removed
RECURSIVE LStrip(_)
LStrip(s) ==
    IF s # <<>> /\ Head(s) \in Whitespace THEN LStrip(Tail(s)) ELSE s

RECURSIVE RStrip(_)
RStrip(s) ==
    IF s # <<>> /\ s[Len(s)] \in Whitespace
    THEN RStrip(SubSeq(s, 1, Len(s) - 1)) ELSE s

Strip(s) == RStrip(LStrip(s))

LowerChar(c) == CASE c = "A" -> "a" [] c = "B" -> "b" [] OTHER -> c

\* str.lower()
Lower(s) == [i \in 1..Len(s) |-> LowerChar(s[i])]

\* str.replace(' ', '_')
ReplaceSpaces(s) == [i \in 1..Len(s) |-> IF s[i] = " " THEN "_" ELSE s[i]]

\* the character class [a-zA-Z0-9_]
IsWordChar(c) ==
    c \in Lowercase \cup Uppercase \cup Range(DigitChars) \cup {"_"}

\* a faulty StripSpecial: a character outside the class becomes a space
\* instead of being deleted
StripSpecialToSpace(s) ==
    [i \in 1..Len(s) |-> IF IsWordChar(s[i]) THEN s[i] ELSE " "]

\* str.replace('[^a-zA-Z0-9_]', '', regex=True)
StripSpecial(s) == Mask(s, [i \in 1..Len(s) |-> IsWordChar(s[i])])

\* the chain of string methods applied to every column name
CleanName(s) == StripSpecial(ReplaceSpaces(Lower(Strip(s))))

\* code points, for the order of texts
Ord(c) ==
    CASE c = " " -> 32 [] c = "!" -> 33 [] c = "." -> 46
      [] c = "0" -> 48 [] c = "1" -> 49 [] c = "2" -> 50 [] c = "3" -> 51
      [] c = "4" -> 52 [] c = "5" -> 53 [] c = "6" -> 54 [] c = "7" -> 55
      [] c = "8" -> 56 [] c = "9" -> 57
      [] c = "A" -> 65 [] c = "B" -> 66 [] c = "_" -> 95
      [] c = "a" -> 97 [] c = "b" -> 98 [] c = "n" -> 110

RECURSIVE TextLess(_, _)
\* s < t in the order of Python strings (lexicographic by code point)
TextLess(s, t) ==
    IF t = <<>> THEN FALSE
    ELSE IF s = <<>> THEN TRUE
    ELSE IF Head(s) = Head(t) THEN TextLess(Tail(s), Tail(t))
    ELSE Ord(Head(s)) < Ord(Head(t))

RECURSIVE Digits(_)
\* the decimal digits of a natural number
Digits(v) ==
    IF v < 10 THEN <<DigitChars[v + 1]>>
    ELSE Digits(v \div 10) \o <<DigitChars[(v % 10) + 1]>>

\* str(x) of a cell: "3" in an int64 column; "3.0" or "nan" in a float64 one
FormatCell(c, isFloat) ==
    IF IsNaN(c) THEN <<"n", "a", "n">>
    ELSE IF isFloat THEN Digits(c.num) \o <<".", "0">>
    ELSE Digits(c.num)

-----------------------------------------------------------------------------
(* Tables *)

NumRows(t) == Len(t.rows)
NumCols(t) == Len(t.columns)

\* the values of the column at position c, in row order
ColumnAt(t, c) == [r \in 1..NumRows(t) |-> t.rows[r][c]]

\* the position of the column named name (df[name])
ColPos(t, name) == CHOOSE c \in 1..NumCols(t) : t.columns[c] = name

Col(t, name) == ColumnAt(t, ColPos(t, name))

\* the non-absent values of an integer column, in row order (skipna)
NonNull(col) ==
    Flatten([i \in 1..Len(col) |-> IF IsNaN(col[i]) THEN <<>> ELSE <<col[i].num>>])

\* a column with a NaN is float64, one without is int64
IsFloatCol(col) == \E i \in 1..Len(col) : IsNaN(col[i])

\* the table with the rows where keep holds, labels kept (boolean indexing)
KeepRows(t, keep) ==
    [columns |-> t.columns, index |-> Mask(t.index, keep), rows |-> Mask(t.rows, keep)]

\* the table with column name replaced by the values newcol
SetCol(t, name, newcol) ==
    [t EXCEPT !.rows =
        [r \in 1..NumRows(t) |->
            [c \in 1..NumCols(t) |->
                IF t.columns[c] = name THEN newcol[r] ELSE t.rows[r][c]]]]

NoTable == [columns |-> <<>>, index |-> <<>>, rows |-> <<>>]

\* a freshly built table: RangeIndex labels 0..n-1
MkTable(names, rows) ==
    [columns |-> names, index |-> [i \in 1..Len(rows) |-> i - 1], rows |-> rows]

-----------------------------------------------------------------------------
(* Exact numbers *)

RECURSIVE Gcd(_, _)
Gcd(a, b) == IF b = 0 THEN a ELSE Gcd(b, a % b)

\* the number n / d in lowest terms (d > 0)
Frac(n, d) ==
    LET g == Gcd(Abs(n), d)
    IN  [num |-> n \div g, den |-> d \div g, rad |-> 1]

-----------------------------------------------------------------------------
(* What a call leaves behind.  A function works on a local name df that is   *)
(* bound to an object: [shared, data], shared when the object is the         *)
(* caller's own table.  An outcome is the caller's table after the call      *)
(* (arg), the table returned (ret) and the error raised (err).               *)

\* a faulty DfCopy: no copy is taken, the local name is bound to the caller's
\* table
DfAlias(t) == [shared |-> TRUE, data |-> t]

\* df.copy(): a new object with the same contents
DfCopy(t) == [shared |-> FALSE, data |-> t]

\* the caller's table once the object bound to w holds data
After(w, orig, data) == IF w.shared THEN data ELSE orig

Outcome(argAfter, ret, e) == [arg |-> argAfter, ret |-> ret, err |-> e]

-----------------------------------------------------------------------------
(* data_processing.clean_column_names *)

clean_column_names(t) ==
    LET w == DfCopy(t)
        cleaned == [w.data EXCEPT !.columns =
                       [c \in 1..NumCols(w.data) |-> CleanName(w.data.columns[c])]]
    IN  Outcome(After(w, t, cleaned), cleaned, "none")

-----------------------------------------------------------------------------
(* data_processing.handle_missing_values *)

\* a faulty DropNa: a row is dropped when any of its cells is absent,
\* selected or not
DropNaAnyColumn(t, cols) ==
    KeepRows(t, [r \in 1..NumRows(t) |->
                    \A c \in 1..NumCols(t) : ~IsNaN(t.rows[r][c])])

\* df.dropna(subset=cols): the rows with no absent cell in the columns cols
DropNa(t, cols) ==
    KeepRows(t, [r \in 1..NumRows(t) |->
                    \A k \in 1..Len(cols) : ~IsNaN(t.rows[r][ColPos(t, cols[k])])])

\* Series.fillna(v): every absent cell replaced by v
FillNa(col, v) == [i \in 1..Len(col) |-> IF IsNaN(col[i]) THEN v ELSE col[i]]

\* Series.mean(): over the non-absent cells, NaN when there is none
Mean(col) ==
    LET s == NonNull(col)
    IN  IF s = <<>> THEN NaN ELSE Frac(Sum(s), Len(s))

\* Series.median(): over the non-absent cells, NaN when there is none
Median(col) ==
    LET s == SortValues(NonNull(col))
        n == Len(s)
    IN  IF n = 0 THEN NaN
        ELSE IF n % 2 = 1 THEN Num(s[(n + 1) \div 2])
        ELSE Frac(s[n \div 2] + s[(n \div 2) + 1], 2)

\* how many times v occurs in the sequence s
Count(s, v) == Cardinality({i \in 1..Len(s) : s[i] = v})

\* Series.mode(): the most frequent non-absent values, ascending
Mode(col) ==
    LET s == NonNull(col)
    IN  SortedSeq({v \in Range(s) : \A u \in Range(s) : Count(s, u) <= Count(s, v)})

\* Series.ffill(): an absent cell takes the nearest non-absent cell before it
FFill(col) ==
    [i \in 1..Len(col) |->
        LET prev == {j \in 1..(i - 1) : ~IsNaN(col[j])}
        IN  IF ~IsNaN(col[i]) \/ prev = {} THEN col[i]
            ELSE col[CHOOSE j \in prev : \A k \in prev : k <= j]]

\* Series.bfill(): an absent cell takes the nearest non-absent cell after it
BFill(col) ==
    [i \in 1..Len(col) |->
        LET next == {j \in (i + 1)..Len(col) : ~IsNaN(col[j])}
        IN  IF ~IsNaN(col[i]) \/ next = {} THEN col[i]
            ELSE col[CHOOSE j \in next : \A k \in next : j <= k]]

RECURSIVE FillLoop(_, _, _)
\* the loop "for col in columns: df[col].fillna(..., inplace=True)" of the
\* strategies mean, median and mode, on the local table t.  Every column of
\* the model is int64 or float64, so the dtype test of mean and median
\* passes.  An entirely absent column has an empty mode: the value passed is
\* None, which fillna rejects with a ValueError.
FillLoop(t, cols, strategy) ==
    IF cols = <<>> THEN [data |-> t, err |-> "none"]
    ELSE LET name == Head(cols)
             col  == Col(t, name)
         IN  IF strategy = "mode" /\ Mode(col) = <<>>
             THEN [data |-> t, err |-> "ValueError"]
             ELSE LET v == CASE strategy = "mean"   -> Mean(col)
                             [] strategy = "median" -> Median(col)
                             [] strategy = "mode"   -> Num(Mode(col)[1])
                  IN  FillLoop(SetCol(t, name, FillNa(col, v)), Tail(cols), strategy)

RECURSIVE FillDirection(_, _, _)
\* df[columns] = df[columns].ffill() (or .bfill()): each selected column
FillDirection(t, cols, strategy) ==
    IF cols = <<>> THEN t
    ELSE LET name == Head(cols)
             col  == Col(t, name)
             new  == IF strategy = "ffill" THEN FFill(col) ELSE BFill(col)
         IN  FillDirection(SetCol(t, name, new), Tail(cols), strategy)

handle_missing_values(t, strategy, columns) ==
    LET w    == DfCopy(t)
        cols == IF columns.none THEN w.data.columns ELSE columns.names
    IN  CASE strategy = "drop" ->
               \* df is rebound to the result of dropna
               Outcome(t, DropNa(w.data, cols), "none")
          [] strategy \in {"mean", "median", "mode"} ->
               LET f == FillLoop(w.data, cols, strategy)
               IN  Outcome(After(w, t, f.data),
                           IF f.err = "none" THEN f.data ELSE NoTable, f.err)
          [] strategy \in {"ffill", "bfill"} ->
               LET d == FillDirection(w.data, cols, strategy)
               IN  Outcome(After(w, t, d), d, "none")
          [] OTHER -> Outcome(t, NoTable, "ValueError")

-----------------------------------------------------------------------------
(* Arithmetic on cells, as numpy does it on float64: NaN is contagious and   *)
(* every comparison with NaN is false.                                        *)

FAdd(x, y) ==
    IF IsNaN(x) \/ IsNaN(y) THEN NaN
    ELSE Frac(x.num * y.den + y.num * x.den, x.den * y.den)

FSub(x, y) ==
    IF IsNaN(x) \/ IsNaN(y) THEN NaN
    ELSE Frac(x.num * y.den - y.num * x.den, x.den * y.den)

FMul(x, y) ==
    IF IsNaN(x) \/ IsNaN(y) THEN NaN
    ELSE Frac(x.num * y.num, x.den * y.den)

\* a * a with the sign of a: monotonic, so that square roots can be compared
SqSigned(a) == IF a < 0 THEN 0 - (a * a) ELSE a * a

\* x < y for exact numbers num / (den * sqrt(rad))
FLt(x, y) ==
    /\ ~IsNaN(x)
    /\ ~IsNaN(y)
    /\ SqSigned(x.num * y.den) * y.rad < SqSigned(y.num * x.den) * x.rad

\* x <= y
FLe(x, y) ==
    /\ ~IsNaN(x)
    /\ ~IsNaN(y)
    /\ SqSigned(x.num * y.den) * y.rad <= SqSigned(y.num * x.den) * x.rad

\* the square root of the fraction v >= 0: p/q = p / sqrt(p*q)
Sqrt(v) ==
    IF IsNaN(v) THEN NaN
    ELSE IF v.num = 0 THEN Num(0)
    ELSE [num |-> v.num, den |-> 1, rad |-> v.num * v.den]

\* x / y for a fraction x and y a fraction or a square root.  0 / 0 is NaN;
\* a nonzero x is never divided by zero here (a zero deviation means every
\* value equals the mean), so infinities are not represented.
FDiv(x, y) ==
    IF IsNaN(x) \/ IsNaN(y) \/ y.num = 0 THEN NaN
    ELSE IF y.num < 0
         THEN [num |-> 0 - (x.num * y.den * y.rad), den |-> x.den * (0 - y.num), rad |-> y.rad]
         ELSE [num |-> x.num * y.den * y.rad, den |-> x.den * y.num, rad |-> y.rad]

\* numpy.abs
FAbs(x) == [x EXCEPT !.num = Abs(x.num)]

\* the sum of the squared deviations of the values s from their mean
SumSqDev(s) ==
    LET m == Frac(Sum(s), Len(s))
        RECURSIVE Acc(_)
        Acc(k) == IF k = 0 THEN Num(0)
                  ELSE LET d == FSub(Num(s[k]), m) IN FAdd(Acc(k - 1), FMul(d, d))
    IN  Acc(Len(s))

\* the variance of the non-absent cells with divisor n - ddof
Var(col, ddof) ==
    LET s == NonNull(col)
    IN  IF Len(s) - ddof <= 0 THEN NaN
        ELSE FMul(SumSqDev(s), Frac(1, Len(s) - ddof))

\* a faulty Std: the population standard deviation (ddof = 0)
StdPopulation(col) == Sqrt(Var(col, 0))

\* Series.std(): the sample standard deviation (ddof = 1)
Std(col) == Sqrt(Var(col, 1))

\* Series.quantile(k/4): linear interpolation between the order statistics
\* of the non-absent cells, NaN when there is none
Quantile(col, k) ==
    LET s   == SortValues(NonNull(col))
        n   == Len(s)
        pos == (n - 1) * k
        lo  == (pos \div 4) + 1
        r   == pos % 4
    IN  IF n = 0 THEN NaN
        ELSE IF r = 0 THEN Num(s[lo])
        ELSE FAdd(Num(s[lo]), FMul(Frac(r, 4), Num(s[lo + 1] - s[lo])))

-----------------------------------------------------------------------------
(* utils.remove_outliers.  The threshold is threshold2 / 2.                  *)

\* a faulty WithinBounds: the bounds themselves are excluded
WithinBoundsStrict(v, lower, upper) == FLt(lower, v) /\ FLt(v, upper)

\* (df[column] >= lower_bound) & (df[column] <= upper_bound), for one cell
WithinBounds(v, lower, upper) == FLe(lower, v) /\ FLe(v, upper)

LowerBound(col, threshold) ==
    LET Q1 == Quantile(col, 1)
        Q3 == Quantile(col, 3)
        IQR == FSub(Q3, Q1)
    IN  FSub(Q1, FMul(threshold, IQR))

UpperBound(col, threshold) ==
    LET Q1 == Quantile(col, 1)
        Q3 == Quantile(col, 3)
        IQR == FSub(Q3, Q1)
    IN  FAdd(Q3, FMul(threshold, IQR))

\* np.abs((df[column] - df[column].mean()) / df[column].std()), for one cell
ZScore(col, v) == FAbs(FDiv(FSub(v, Mean(col)), Std(col)))

remove_outliers(t, column, method, threshold2) ==
    LET col == Col(t, column)
        threshold == Frac(threshold2, 2)
    IN  CASE method = "iqr" ->
               LET lower_bound == LowerBound(col, threshold)
                   upper_bound == UpperBound(col, threshold)
               IN  Outcome(t, KeepRows(t, [r \in 1..NumRows(t) |->
                              WithinBounds(col[r], lower_bound, upper_bound)]), "none")
          [] method = "zscore" ->
               Outcome(t, KeepRows(t, [r \in 1..NumRows(t) |->
                              FLt(ZScore(col, col[r]), threshold)]), "none")
          [] OTHER -> Outcome(t, NoTable, "ValueError")

-----------------------------------------------------------------------------
(* data_processing.encode_categorical *)

\* df[col].astype(str): the text of every cell of the column
AsTypeStr(col) == [i \in 1..Len(col) |-> FormatCell(col[i], IsFloatCol(col))]

RECURSIVE SortTexts(_)
\* the texts of a finite set in ascending order (numpy.unique)
SortTexts(S) ==
    IF S = {} THEN <<>>
    ELSE LET m == CHOOSE x \in S : \A y \in S \ {x} : TextLess(x, y)
         IN  <<m>> \o SortTexts(S \ {m})

RECURSIVE FirstSeen(_)
\* the distinct elements of a sequence in the order of their first occurrence
FirstSeen(s) ==
    IF s = <<>> THEN <<>>
    ELSE LET init == FirstSeen(SubSeq(s, 1, Len(s) - 1))
         IN  IF s[Len(s)] \in Range(init) THEN init ELSE Append(init, s[Len(s)])

\* a faulty Classes: the distinct values in the order of first appearance
ClassesByAppearance(texts) == FirstSeen(texts)

\* LabelEncoder.fit: classes_ is the sorted array of the distinct values
Classes(texts) == SortTexts(Range(texts))

\* the position of x in the sequence s, from 0
IndexOf(s, x) == (CHOOSE i \in 1..Len(s) : s[i] = x) - 1

\* LabelEncoder().fit_transform(df[col].astype(str)): each cell's class index
LabelEncode(col) ==
    LET texts == AsTypeStr(col)
    IN  [i \in 1..Len(col) |-> Num(IndexOf(Classes(texts), texts[i]))]

RECURSIVE LabelLoop(_, _)
\* for col in columns: df[col] = le.fit_transform(df[col].astype(str))
LabelLoop(t, cols) ==
    IF cols = <<>> THEN t
    ELSE LabelLoop(SetCol(t, Head(cols), LabelEncode(Col(t, Head(cols)))), Tail(cols))

\* the levels of a column that get an indicator: the distinct non-absent
\* values ascending, without the first (drop_first=True)
DummyLevels(col) ==
    LET levels == SortedSeq(Range(NonNull(col)))
    IN  IF levels = <<>> THEN <<>> ELSE Tail(levels)

\* the names of the indicator columns of the column name: name_level
DummyNames(t, name) ==
    LET col == Col(t, name)
        lv  == DummyLevels(col)
    IN  [k \in 1..Len(lv) |-> name \o <<"_">> \o FormatCell(Num(lv[k]), IsFloatCol(col))]

\* the indicator cells of row r for the column name
DummyCells(t, name, r) ==
    LET col == Col(t, name)
        lv  == DummyLevels(col)
    IN  [k \in 1..Len(lv) |-> IF col[r] = Num(lv[k]) THEN Num(1) ELSE Num(0)]

\* pd.get_dummies(df, columns=cols, drop_first=True): the columns not encoded,
\* in their order, then the indicators of each encoded column
GetDummies(t, cols) ==
    LET rest == [c \in 1..NumCols(t) |-> t.columns[c] \notin Range(cols)]
    IN  [columns |-> Mask(t.columns, rest)
                     \o Flatten([k \in 1..Len(cols) |-> DummyNames(t, cols[k])]),
         index   |-> t.index,
         rows    |-> [r \in 1..NumRows(t) |->
                        Mask(t.rows[r], rest)
                        \o Flatten([k \in 1..Len(cols) |-> DummyCells(t, cols[k], r)])]]

encode_categorical(t, columns, method) ==
    LET w == DfCopy(t)
    IN  CASE method = "onehot" ->
               \* df is rebound to the result of get_dummies
               Outcome(t, GetDummies(w.data, columns), "none")
          [] method = "label" ->
               LET d == LabelLoop(w.data, columns)
               IN  Outcome(After(w, t, d), d, "none")
          [] OTHER -> Outcome(t, NoTable, "ValueError")

-----------------------------------------------------------------------------
(* data_processing.normalize_data *)

\* numpy.nanmin / nanmax of a column, NaN when it has no value
NanMin(col) ==
    LET s == SortValues(NonNull(col)) IN IF s = <<>> THEN NaN ELSE Num(s[1])

NanMax(col) ==
    LET s == SortValues(NonNull(col)) IN IF s = <<>> THEN NaN ELSE Num(s[Len(s)])

\* a faulty HandleZerosInScale: a zero scale is used as it is
KeepZeroScale(scale) == scale

\* sklearn's _handle_zeros_in_scale: a zero scale (constant column) becomes 1
HandleZerosInScale(scale) ==
    IF ~IsNaN(scale) /\ scale.num = 0 THEN Num(1) ELSE scale

\* MinMaxScaler().fit_transform on one column, feature range (0, 1):
\* X * scale_ + min_ with scale_ = 1 / data_range_, min_ = 0 - data_min_ * scale_
MinMaxScale(col) ==
    LET data_min   == NanMin(col)
        data_range == FSub(NanMax(col), data_min)
        scale_     == FDiv(Num(1), HandleZerosInScale(data_range))
        min_       == FSub(Num(0), FMul(data_min, scale_))
    IN  [i \in 1..Len(col) |-> FAdd(FMul(col[i], scale_), min_)]

\* StandardScaler().fit_transform on one column: (X - mean_) / scale_ with
\* scale_ the population standard deviation
StandardScale(col) ==
    LET mean_  == Mean(col)
        scale_ == HandleZerosInScale(Sqrt(Var(col, 0)))
    IN  [i \in 1..Len(col) |-> FDiv(FSub(col[i], mean_), scale_)]

RECURSIVE ScaleLoop(_, _, _)
\* df[columns] = scaler.fit_transform(df[columns]): column by column
ScaleLoop(t, cols, method) ==
    IF cols = <<>> THEN t
    ELSE LET col == Col(t, Head(cols))
             new == IF method = "minmax" THEN MinMaxScale(col) ELSE StandardScale(col)
         IN  ScaleLoop(SetCol(t, Head(cols), new), Tail(cols), method)

normalize_data(t, columns, method) ==
    LET w == DfCopy(t)
    IN  CASE method \in {"minmax", "standard"} ->
               \* fit_transform rejects an array with no row
               IF NumRows(w.data) = 0 THEN Outcome(t, NoTable, "ValueError")
               ELSE LET d == ScaleLoop(w.data, columns, method)
                    IN  Outcome(After(w, t, d), d, "none")
          [] OTHER -> Outcome(t, NoTable, "ValueError")

-----------------------------------------------------------------------------
(* utils.save_data and utils.load_data.  A file is [format, header, body]:   *)
(* the header record and the data records.  A field of a delimited file is a *)
(* text; a cell of a workbook is <<>> (blank) or <<c>> (the number c).  No   *)
(* name of the model holds a delimiter or a quote, so the quoting of fields  *)
(* is not modelled.                                                          *)

NoFile == [format |-> "none", header |-> <<>>, body |-> <<>>]

\* str.endswith
EndsWith(s, suffix) ==
    /\ Len(suffix) <= Len(s)
    /\ SubSeq(s, Len(s) - Len(suffix) + 1, Len(s)) = suffix

DotCsv == <<".", "c", "s", "v">>
DotXlsx == <<".", "x", "l", "s", "x">>
DotXls == <<".", "x", "l", "s">>

\* the dtype of every column of a table: float64 (TRUE) or int64
FloatCols(t) == [c \in 1..NumCols(t) |-> IsFloatCol(ColumnAt(t, c))]

\* the text of a cell in a delimited file: na_rep is '', a float is "3.0"
CsvField(c, isFloat) == IF IsNaN(c) THEN <<>> ELSE FormatCell(c, isFloat)

\* df.to_csv(path): index=True and header=True by default, so every record
\* starts with the row label and the header starts with an empty field
ToCsv(t) ==
    [format |-> "csv",
     header |-> <<<<>>>> \o t.columns,
     body   |-> [r \in 1..NumRows(t) |->
                    <<Digits(t.index[r])>>
                    \o [c \in 1..NumCols(t) |-> CsvField(t.rows[r][c], FloatCols(t)[c])]]]

\* df.to_excel(path): the same layout, numbers stored as numbers, NaN blank
ToExcel(t) ==
    [format |-> "excel",
     header |-> <<<<>>>> \o t.columns,
     body   |-> [r \in 1..NumRows(t) |->
                    <<<<Num(t.index[r])>>>>
                    \o [c \in 1..NumCols(t) |->
                          IF IsNaN(t.rows[r][c]) THEN <<>> ELSE <<t.rows[r][c]>>]]]

\* the digit of a character
DigitOf(ch) == (CHOOSE d \in 1..10 : DigitChars[d] = ch) - 1

RECURSIVE ParseDigits(_)
ParseDigits(s) ==
    IF s = <<>> THEN 0
    ELSE 10 * ParseDigits(SubSeq(s, 1, Len(s) - 1)) + DigitOf(s[Len(s)])

\* the parser's reading of a numeric field: empty is NaN, "3" and "3.0" are 3
ParseField(s) ==
    IF s = <<>> THEN NaN
    ELSE IF EndsWith(s, <<".", "0">>) THEN Num(ParseDigits(SubSeq(s, 1, Len(s) - 2)))
    ELSE Num(ParseDigits(s))

\* the name the readers give to a header field: an empty one at position i
\* (from 0) becomes "Unnamed: i"
HeaderName(h, i) ==
    IF h = <<>>
    THEN <<"U", "n", "n", "a", "m", "e", "d", ":", " ">> \o Digits(i)
    ELSE h

\* pd.read_csv(path): the first record names the columns, the others are
\* the rows, labelled 0..n-1
ReadCsv(f) ==
    MkTable([i \in 1..Len(f.header) |-> HeaderName(f.header[i], i - 1)],
            [r \in 1..Len(f.body) |->
                [c \in 1..Len(f.body[r]) |-> ParseField(f.body[r][c])]])

\* pd.read_excel(path): the same, a blank cell is NaN
ReadExcel(f) ==
    MkTable([i \in 1..Len(f.header) |-> HeaderName(f.header[i], i - 1)],
            [r \in 1..Len(f.body) |->
                [c \in 1..Len(f.body[r]) |->
                    IF f.body[r][c] = <<>> THEN NaN ELSE f.body[r][c][1]]])

\* save_data(df, filepath): the file written, or the error raised
save_data(t, filepath) ==
    IF EndsWith(filepath, DotCsv) THEN [file |-> ToCsv(t), err |-> "none"]
    ELSE IF EndsWith(filepath, DotXlsx) \/ EndsWith(filepath, DotXls)
    THEN [file |-> ToExcel(t), err |-> "none"]
    ELSE [file |-> NoFile, err |-> "ValueError"]

\* load_data(filepath) on the file f found at filepath (NoFile: none)
load_data(filepath, f) ==
    IF EndsWith(filepath, DotCsv)
    THEN IF f.format = "none" THEN [ret |-> NoTable, err |-> "FileNotFoundError"]
         ELSE [ret |-> ReadCsv(f), err |-> "none"]
    ELSE IF EndsWith(filepath, DotXlsx) \/ EndsWith(filepath, DotXls)
    THEN IF f.format = "none" THEN [ret |-> NoTable, err |-> "FileNotFoundError"]
         ELSE [ret |-> ReadExcel(f), err |-> "none"]
    ELSE [ret |-> NoTable, err |-> "ValueError"]

-----------------------------------------------------------------------------
(* The caller.  pc is "idle" between calls, "returned" or "raised" after one *)
(* (out holds the table returned, err the error); call names the last call.  *)
(* fs maps every path to the file stored there.                              *)

\* the column names of the tables of Spec and SpecIO
ColumnNames == <<<<"A">>, <<"b">>>>

\* the characters of the column names of SpecNames
NameChars == {"a", "B", " ", "_", "!", "1"}

Names == UNION {[1..n -> NameChars] : n \in 1..MaxNameLen}

\* the names tried for the second column of the tables of SpecNames
OtherNames == {<<"a">>, <<"a", "_", "b">>, <<"a", "_", "1">>}

\* the rows of the tables of SpecNames
SampleRows == <<<<Num(0), Num(1)>>, <<Num(1), NaN>>>>

Tables ==
    {MkTable(ColumnNames, rows) :
        rows \in UNION {[1..n -> [1..Len(ColumnNames) -> Cells]] : n \in 0..MaxRows}}

Strategies == {"drop", "mean", "median", "mode", "ffill", "bfill", "other"}
EncodeMethods == {"onehot", "label", "other"}
ScaleMethods == {"minmax", "standard", "other"}
OutlierMethods == {"iqr", "zscore", "other"}
Thresholds2 == 0..MaxThreshold2

Paths == {<<"t">> \o DotCsv, <<"t">> \o DotXlsx, <<"t", ".", "t", "x", "t">>}

\* the column selections tried on the table t: each column alone, and all
ColumnLists(t) == {<<t.columns[c]>> : c \in 1..NumCols(t)} \cup {t.columns}

Selection(names) == [none |-> FALSE, names |-> names]
AllColumns == [none |-> TRUE, names |-> <<>>]

Call(fn, method, columns, threshold2, path) ==
    [fn |-> fn, method |-> method, columns |-> columns,
     threshold2 |-> threshold2, path |-> path]

NoCall == Call("none", "", AllColumns, 0, <<>>)

Init ==
    /\ df \in Tables
    /\ pc = "idle"
    /\ call = NoCall
    /\ out = NoTable
    /\ err = "none"
    /\ fs = [p \in Paths |-> NoFile]

InitNames ==
    /\ df \in {MkTable(<<n1, n2>>, SampleRows) : n1 \in Names, n2 \in OtherNames}
    /\ df.columns[1] # df.columns[2]
    /\ pc = "idle"
    /\ call = NoCall
    /\ out = NoTable
    /\ err = "none"
    /\ fs = [p \in Paths |-> NoFile]

\* the caller's state after a call of a transformation with outcome o
Finish(c, o) ==
    /\ call' = c
    /\ df' = o.arg
    /\ out' = o.ret
    /\ err' = o.err
    /\ pc' = IF o.err = "none" THEN "returned" ELSE "raised"
    /\ UNCHANGED fs

CallCleanColumnNames ==
    /\ pc = "idle"
    /\ Finish(Call("clean_column_names", "", AllColumns, 0, <<>>),
              clean_column_names(df))

CallHandleMissingValues ==
    /\ pc = "idle"
    /\ \E strategy \in Strategies :
       \E columns \in {AllColumns} \cup {Selection(l) : l \in ColumnLists(df)} :
          Finish(Call("handle_missing_values", strategy, columns, 0, <<>>),
                 handle_missing_values(df, strategy, columns))

CallEncodeCategorical ==
    /\ pc = "idle"
    /\ \E method \in EncodeMethods :
       \E columns \in ColumnLists(df) :
          Finish(Call("encode_categorical", method, Selection(columns), 0, <<>>),
                 encode_categorical(df, columns, method))

CallNormalizeData ==
    /\ pc = "idle"
    /\ \E method \in ScaleMethods :
       \E columns \in ColumnLists(df) :
          Finish(Call("normalize_data", method, Selection(columns), 0, <<>>),
                 normalize_data(df, columns, method))

CallRemoveOutliers ==
    /\ pc = "idle"
    /\ \E method \in OutlierMethods :
       \E c \in 1..NumCols(df) :
       \E threshold2 \in Thresholds2 :
          Finish(Call("remove_outliers", method, Selection(<<df.columns[c]>>),
                      threshold2, <<>>),
                 remove_outliers(df, df.columns[c], method, threshold2))

CallSaveData ==
    /\ pc = "idle"
    /\ \E path \in Paths :
          LET o == save_data(df, path)
          IN  /\ call' = Call("save_data", "", AllColumns, 0, path)
              /\ fs' = IF o.err = "none" THEN [fs EXCEPT ![path] = o.file] ELSE fs
              /\ out' = NoTable
              /\ err' = o.err
              /\ pc' = IF o.err = "none" THEN "returned" ELSE "raised"
              /\ UNCHANGED df

CallLoadData ==
    /\ pc = "idle"
    /\ \E path \in Paths :
          LET o == load_data(path, fs[path])
          IN  /\ call' = Call("load_data", "", AllColumns, 0, path)
              /\ out' = o.ret
              /\ err' = o.err
              /\ pc' = IF o.err = "none" THEN "returned" ELSE "raised"
              /\ UNCHANGED <<df, fs>>

\* the caller drops the result (or handles the error) and is ready again
Discard ==
    /\ pc # "idle"
    /\ pc' = "idle"
    /\ call' = NoCall
    /\ out' = NoTable
    /\ err' = "none"
    /\ UNCHANGED <<df, fs>>

Next ==
    \/ CallCleanColumnNames
    \/ CallHandleMissingValues
    \/ CallEncodeCategorical
    \/ CallNormalizeData
    \/ CallRemoveOutliers
    \/ Discard

NextNames ==
    \/ CallCleanColumnNames
    \/ CallEncodeCategorical
    \/ Discard

NextIO ==
    \/ CallSaveData
    \/ CallLoadData
    \/ Discard

\* the transformations on numeric tables
Spec == Init /\ [][Next]_vars

\* the operations that make column names, on tables with varied names
SpecNames == InitNames /\ [][NextNames]_vars

\* saving and loading
SpecIO == Init /\ [][NextIO]_vars

-----------------------------------------------------------------------------
(* Properties *)

\* the columns the last call selected
SelectedNames == IF call.columns.none THEN df.columns ELSE call.columns.names

Returned(fn, method) == pc = "returned" /\ call.fn = fn /\ call.method = method

\* row r of df has no absent cell in the selected columns
Complete(r) ==
    \A k \in 1..Len(SelectedNames) : ~IsNaN(df.rows[r][ColPos(df, SelectedNames[k])])

\* out holds exactly the rows of df whose position is in keep, in df's order
\* (the row labels of df are 0..n-1, so ascending labels are df's order)
ExactlyRows(keep) ==
    /\ out.columns = df.columns
    /\ out.index = SortedSeq({df.index[r] : r \in keep})
    /\ \A i \in 1..NumRows(out) : out.rows[i] = df.rows[out.index[i] + 1]

\* C1: handle_missing_values(T, 'drop', cols) returns exactly the rows of T
\* with no absent value in cols, in T's order; so the result has no absent
\* value in cols, and a row with absent values only outside cols is kept.
C1_DropKeepsCompleteRows ==
    Returned("handle_missing_values", "drop") =>
        /\ ExactlyRows({r \in 1..NumRows(df) : Complete(r)})
        /\ \A i \in 1..NumRows(out) :
           \A k \in 1..Len(SelectedNames) :
              ~IsNaN(out.rows[i][ColPos(out, SelectedNames[k])])

\* a drop that removed a row and kept one with an absent cell outside cols
C1_Witness ==
    /\ Returned("handle_missing_values", "drop")
    /\ NumRows(out) < NumRows(df)
    /\ \E i \in 1..NumRows(out) : \E c \in 1..NumCols(out) : IsNaN(out.rows[i][c])

\* every character of the name is in [a-z0-9_]
IsCleanName(s) ==
    \A i \in 1..Len(s) : s[i] \in Lowercase \cup Range(DigitChars) \cup {"_"}

\* C2: clean_column_names is idempotent: cleaning its result again changes
\* neither the names nor the data, every name it produces being a fixed point
\* made of the characters [a-z0-9_] only.
C2_CleanIdempotent ==
    Returned("clean_column_names", "") =>
        /\ clean_column_names(out).ret = out
        /\ \A c \in 1..NumCols(out) :
              /\ CleanName(out.columns[c]) = out.columns[c]
              /\ IsCleanName(out.columns[c])
        /\ out.rows = df.rows

\* "B !" was cleaned to "b_": lowercased, the space replaced, the "!" removed
C2_Witness ==
    /\ Returned("clean_column_names", "")
    /\ df.columns[1] = <<"B", " ", "!">>
    /\ out.columns[1] = <<"b", "_">>

\* the column the last remove_outliers call looked at, in df
OutlierCol == Col(df, call.columns.names[1])

\* C3: remove_outliers(T, c, 'iqr', t) returns exactly the rows of T whose
\* value in c is present and within [Q1 - t*IQR, Q3 + t*IQR], bounds
\* included, in T's order: no row below or above the bounds, no absent row.
C3_IqrKeepsRowsWithinBounds ==
    Returned("remove_outliers", "iqr") =>
        LET t     == Frac(call.threshold2, 2)
            Q1    == Quantile(OutlierCol, 1)
            Q3    == Quantile(OutlierCol, 3)
            lower == FSub(Q1, FMul(t, FSub(Q3, Q1)))
            upper == FAdd(Q3, FMul(t, FSub(Q3, Q1)))
        IN  /\ ExactlyRows({r \in 1..NumRows(df) :
                              /\ ~IsNaN(OutlierCol[r])
                              /\ ~FLt(OutlierCol[r], lower)
                              /\ ~FLt(upper, OutlierCol[r])})
            /\ \A i \in 1..NumRows(out) :
                  LET v == out.rows[i][ColPos(out, call.columns.names[1])]
                  IN  ~IsNaN(v) /\ ~FLt(v, lower) /\ ~FLt(upper, v)

\* a value lying exactly on the lower bound was kept and a row was removed
C3_Witness ==
    /\ Returned("remove_outliers", "iqr")
    /\ NumRows(out) < NumRows(df)
    /\ \E i \in 1..NumRows(out) :
          out.rows[i][ColPos(out, call.columns.names[1])]
             = LowerBound(OutlierCol, Frac(call.threshold2, 2))

\* the smallest and the largest of the non-absent values of a column
MinOf(col) == CHOOSE x \in Range(NonNull(col)) : \A y \in Range(NonNull(col)) : x <= y
MaxOf(col) == CHOOSE x \in Range(NonNull(col)) : \A y \in Range(NonNull(col)) : y <= x

\* the cell of out in row r of the selected column k (same rows as df)
OutCell(r, k) == out.rows[r][ColPos(out, SelectedNames[k])]
InCell(r, k) == df.rows[r][ColPos(df, SelectedNames[k])]

\* C4, as stated: min-max scaling puts every (non-absent) value of c in
\* [0,1], the rows holding the minimum at 0 and the rows holding the maximum
\* at 1, also when all values of c are equal.
C4_AsStated ==
    Returned("normalize_data", "minmax") =>
        \A k \in 1..Len(SelectedNames) : \A r \in 1..NumRows(df) :
            LET x == InCell(r, k)
                y == OutCell(r, k)
                col == Col(df, SelectedNames[k])
            IN  ~IsNaN(x) =>
                    /\ FLe(Num(0), y) /\ FLe(y, Num(1))
                    /\ x = Num(MinOf(col)) => y = Num(0)
                    /\ x = Num(MaxOf(col)) => y = Num(1)

\* C4, amended: on a table with at least one row, min-max scaling leaves the
\* absent values of c absent and puts every other value in [0,1]; the minimum
\* goes to 0; the maximum goes to 1 when it exceeds the minimum, and to 0
\* when all values of c are equal.
C4_MinMaxRange ==
    Returned("normalize_data", "minmax") =>
        \A k \in 1..Len(SelectedNames) : \A r \in 1..NumRows(df) :
            LET x == InCell(r, k)
                y == OutCell(r, k)
                col == Col(df, SelectedNames[k])
            IN  IF IsNaN(x) THEN IsNaN(y)
                ELSE /\ FLe(Num(0), y) /\ FLe(y, Num(1))
                     /\ x = Num(MinOf(col)) => y = Num(0)
                     /\ (x = Num(MaxOf(col)) /\ MinOf(col) < MaxOf(col)) => y = Num(1)
                     /\ MinOf(col) = MaxOf(col) => y = Num(0)

\* a column whose values all equal 1 was scaled: its maximum went to 0
C4_Witness ==
    /\ Returned("normalize_data", "minmax")
    /\ NumRows(df) = MaxRows
    /\ \A r \in 1..NumRows(df) : InCell(r, 1) = Num(1) /\ OutCell(r, 1) = Num(0)

\* C6: no transformation modifies the table it is given, whether it returns
\* or raises: no step changes the caller's table, so any sequence of calls
\* leaves it as it was.
C6_InputUnchanged == [][df' = df]_vars

\* a forward fill has returned a table that differs from the caller's: the
\* values were filled in the copy
C6_Witness ==
    /\ Returned("handle_missing_values", "ffill")
    /\ out # df
    /\ out.index = df.index

\* the texts of the selected column k of df
TextsOf(k) == AsTypeStr(Col(df, SelectedNames[k]))

\* C7, as stated: label encoding numbers the distinct texts of a column in
\* the order of their first appearance: the first text met gets 0, the next
\* new one 1, and so on.
C7_AsStated ==
    Returned("encode_categorical", "label") =>
        \A k \in 1..Len(SelectedNames) : \A r \in 1..NumRows(df) :
            OutCell(r, k) = Num(IndexOf(FirstSeen(TextsOf(k)), TextsOf(k)[r]))

\* C7, amended: label encoding numbers the distinct texts of a column in
\* their ascending (code point) order: the code of a value is the number of
\* distinct texts of the column smaller than its text, so equal texts get
\* equal codes.
C7_LabelBySortedText ==
    Returned("encode_categorical", "label") =>
        \A k \in 1..Len(SelectedNames) : \A r \in 1..NumRows(df) :
            OutCell(r, k) =
                Num(Cardinality({u \in Range(TextsOf(k)) : TextLess(u, TextsOf(k)[r])}))

\* the first value met did not get code 0, two rows got different codes
C7_Witness ==
    /\ Returned("encode_categorical", "label")
    /\ NumRows(df) >= 2
    /\ OutCell(1, 1) = Num(1)
    /\ OutCell(2, 1) = Num(0)

\* the selected column k of df has rows and all of them absent
AllAbsent(k) ==
    /\ NumRows(df) > 0
    /\ \A r \in 1..NumRows(df) : IsNaN(InCell(r, k))

\* C8: handle_missing_values(T, 'mode', cols) with a selected column that is
\* entirely absent returns normally, leaves that column absent and fills the
\* absent values of the other selected columns with their most frequent value.
C8_ModeAllAbsentReturns ==
    ( /\ pc # "idle"
      /\ call.fn = "handle_missing_values"
      /\ call.method = "mode"
      /\ \E k \in 1..Len(SelectedNames) : AllAbsent(k) )
    => /\ pc = "returned"
       /\ \A k \in 1..Len(SelectedNames) : \A r \in 1..NumRows(df) :
             IF AllAbsent(k) THEN IsNaN(OutCell(r, k))
             ELSE OutCell(r, k) =
                     IF IsNaN(InCell(r, k))
                     THEN Num(Mode(Col(df, SelectedNames[k]))[1])
                     ELSE InCell(r, k)

\* the integers behind the z-score test of the value v of the column col:
\* with n values of sum S and sum of squares Q, (v - mean)^2 is DevSq / n^2
\* and the sum of the squared deviations is Spread / n
DevSq(col, v) == (Len(NonNull(col)) * v - Sum(NonNull(col))) * (Len(NonNull(col)) * v - Sum(NonNull(col)))
Spread(col) ==
    LET s == NonNull(col)
    IN  Len(s) * Sum([i \in 1..Len(s) |-> s[i] * s[i]]) - Sum(s) * Sum(s)

\* C9, as stated: the z-score method keeps exactly the rows with
\* |value - mean| / stddev < t for the population standard deviation
\* (divisor n) of the non-absent values, absent rows excluded.
C9_AsStated ==
    Returned("remove_outliers", "zscore") =>
        ExactlyRows({r \in 1..NumRows(df) :
            /\ ~IsNaN(OutlierCol[r])
            /\ Spread(OutlierCol) > 0
            /\ 4 * DevSq(OutlierCol, OutlierCol[r].num)
                 < call.threshold2 * call.threshold2 * Spread(OutlierCol)})

\* C9, amended: the z-score method keeps exactly the rows with
\* |value - mean| / stddev < t for the sample standard deviation (divisor
\* n - 1) of the non-absent values, absent rows excluded; when that
\* deviation is zero or undefined (all values equal, or fewer than two) no
\* row is kept.
C9_ZScoreSampleStd ==
    Returned("remove_outliers", "zscore") =>
        ExactlyRows({r \in 1..NumRows(df) :
            /\ ~IsNaN(OutlierCol[r])
            /\ Len(NonNull(OutlierCol)) >= 2
            /\ Spread(OutlierCol) > 0
            /\ 4 * DevSq(OutlierCol, OutlierCol[r].num) * (Len(NonNull(OutlierCol)) - 1)
                 < call.threshold2 * call.threshold2
                   * Len(NonNull(OutlierCol)) * Spread(OutlierCol)})

\* rows were kept that the population deviation would have removed
C9_Witness ==
    /\ Returned("remove_outliers", "zscore")
    /\ NumRows(out) > 0
    /\ \E i \in 1..NumRows(out) :
          LET v == out.rows[i][ColPos(out, call.columns.names[1])].num
          IN  4 * DevSq(OutlierCol, v)
                >= call.threshold2 * call.threshold2 * Spread(OutlierCol)

\* the names of the sequence are pairwise distinct
Distinct(names) ==
    \A i, j \in 1..Len(names) : names[i] = names[j] => i = j

\* C10: column names stay unique: the table returned by clean_column_names,
\* and by encode_categorical with 'onehot', for a table with unique column
\* names has pairwise distinct column names.
C10_NamesStayUnique ==
    ( /\ Distinct(df.columns)
      /\ \/ Returned("clean_column_names", "")
         \/ Returned("encode_categorical", "onehot") )
    => Distinct(out.columns)

\* C5: save_data(T, p) followed by load_data(p), without options, returns a
\* table with the columns and the values of T: no column or row added or lost.
C5_RoundTrip ==
    ( /\ pc = "returned"
      /\ call.fn = "load_data"
      /\ fs[call.path] = save_data(df, call.path).file )
    => /\ out.columns = df.columns
       /\ out.rows = df.rows

=============================================================================
